---------------------------- MODULE Spec2Model ----------------------------
(***************************************************************************)
(* Two command-line programs of the repository:                            *)
(*                                                                         *)
(*   analyze.py          one invocation of the deterministic data analyzer *)
(*                       (load a table, run one operation, print one JSON  *)
(*                       document, exit).                                  *)
(*   feature-manager.py  a sequence of invocations of the feature-list     *)
(*                       manager against one feature_list.json.            *)
(*                                                                         *)
(* A behaviour of Spec is one run of analyze.py; a behaviour of SpecFM is  *)
(* a sequence of feature-manager.py commands.                              *)
(***************************************************************************)
EXTENDS Integers, Sequences, FiniteSets, TLC

VARIABLES
    \* ---- analyze.py
    inp,        \* the invocation: the file on disk and the parsed arguments
    df,         \* the loaded DataFrame
    pc,         \* position of the run
    results,    \* the dict analyze() builds and returns
    stdout,     \* JSON documents printed by main()
    exitCode,   \* process exit code, -1 while running
    trace,      \* positions visited so far
    \* ---- feature-manager.py
    fexists,    \* feature_list.json exists
    fdata,      \* content of feature_list.json
    cmds,       \* commands run so far (also the clock of datetime.now())
    fmOut,      \* what the last command printed
    fmExit,     \* exit code of the last command
    hist        \* the last two commands, each with the file before it ran

avars == <<inp, df, pc, results, stdout, exitCode, trace>>
fvars == <<fexists, fdata, cmds, fmOut, fmExit, hist>>
vars == <<inp, df, pc, results, stdout, exitCode, trace,
          fexists, fdata, cmds, fmOut, fmExit, hist>>

\* A parameter argparse left at None.
NONE == "<None>"

Last(s) == s[Len(s)]

Min(S) == CHOOSE m \in S : \A k \in S : m <= k

Max(S) == CHOOSE m \in S : \A k \in S : m >= k

(***************************************************************************)
(*                        feature-manager.py                               *)
(***************************************************************************)

\* Bounds of the feature-manager model.
MaxInitFeatures == 2

MaxCmds == 3

\* range(1, 1000) of cmd_add, scaled down so that the id space can fill up.
IdLimit == 4

InitIds == {"F001", "F002"}

PassArgs == {"F001", "f002", "F009"}

Descriptions == {"login"}

DefaultSteps == <<"Implement the feature", "Test the feature end-to-end",
                  "Verify no regressions">>

\* f"F{i:03d}"
FmtId(i) ==
    IF i < 10 THEN "F00" \o ToString(i)
    ELSE IF i < 100 THEN "F0" \o ToString(i)
    ELSE "F" \o ToString(i)

\* str.upper() on the identifiers the model passes on the command line.
Upper(s) ==
    CASE s = "f001" -> "F001"
      [] s = "f002" -> "F002"
      [] OTHER -> s

\* sum(1 for f in features if f.get('passes', False))
RECURSIVE CountPassing(_)
CountPassing(fs) ==
    IF fs = <<>> THEN 0
    ELSE (IF fs[1].passes THEN 1 ELSE 0) + CountPassing(Tail(fs))

\* save_features without the recount of `passing`.
SaveFeaturesStale(data, now) ==
    [data EXCEPT !.metadata =
        [last_updated |-> now,
         total_features |-> Len(data.features),
         passing |-> data.metadata.passing,
         failing |-> Len(data.features) - data.metadata.passing]]

\* save_features: the content written to feature_list.json.
SaveFeatures(data, now) ==
    [data EXCEPT !.metadata =
        [last_updated |-> now,
         total_features |-> Len(data.features),
         passing |-> CountPassing(data.features),
         failing |-> Len(data.features) - CountPassing(data.features)]]

\* Index of the first feature with this id, 0 when there is none
\* (the for loop of cmd_pass / cmd_fail).
FirstIndex(fs, fid) ==
    LET hits == {i \in 1..Len(fs) : fs[i].id = fid}
    IN IF hits = {} THEN 0 ELSE Min(hits)

\* Marks every feature with the id, not only the first.
SetPassesAll(fs, fid, val) ==
    [i \in 1..Len(fs) |-> IF fs[i].id = fid THEN [fs[i] EXCEPT !.passes = val] ELSE fs[i]]

\* f['passes'] = val on the first feature with the id.
SetPasses(fs, fid, val) ==
    [fs EXCEPT ![FirstIndex(fs, fid)].passes = val]

\* The id cmd_add generates: the first free F001.., or the last one tried
\* when the loop ends without a break.
NewId(fs) ==
    LET existing == {fs[i].id : i \in 1..Len(fs)}
        free == {i \in 1..(IdLimit - 1) : FmtId(i) \notin existing}
    IN IF free # {} THEN FmtId(Min(free)) ELSE FmtId(IdLimit - 1)

\* max((f.get('priority', 0) for f in features), default=0)
MaxPriority(fs) ==
    IF fs = <<>> THEN 0 ELSE Max({fs[i].priority : i \in 1..Len(fs)})

\* The dict cmd_add appends.
NewFeature(fs, description) ==
    [id |-> NewId(fs), category |-> "functional", priority |-> MaxPriority(fs) + 1,
     description |-> description, steps |-> DefaultSteps, passes |-> FALSE]

\* The failing features in file order.
Failing(fs) == SelectSeq(fs, LAMBDA f : ~f.passes)

\* failing.sort(key=priority)[0]: the sort is stable, so the first of the
\* features with the least priority.
NextFeature(fs) ==
    LET fl == Failing(fs)
        least == Min({fl[i].priority : i \in 1..Len(fl)})
    IN fl[Min({i \in 1..Len(fl) : fl[i].priority = least})]

\* Record of a command in the history.
HistRec(cmd, arg, wrote) ==
    [cmd |-> cmd, arg |-> arg, before |-> fdata, wrote |-> wrote]

Remember(rec) ==
    IF Len(hist) < 2 THEN Append(hist, rec) ELSE <<hist[2], rec>>

\* Seed features: F001 has the lower priority number of the two or not,
\* so that files are not sorted by priority.
InitFeatureSet ==
    {[id |-> i, category |-> "functional", priority |-> IF i = "F001" THEN 2 ELSE 1,
      description |-> "seed", steps |-> <<>>, passes |-> p] : i \in InitIds, p \in BOOLEAN}

InitFeatureLists ==
    UNION {[1..k -> InitFeatureSet] : k \in 0..MaxInitFeatures}

\* A file whose metadata agrees with its features.
ConsistentFile(fs) ==
    [project |-> "demo",
     features |-> fs,
     metadata |-> [last_updated |-> 0,
                   total_features |-> Len(fs),
                   passing |-> CountPassing(fs),
                   failing |-> Len(fs) - CountPassing(fs)]]

AnalyzeIdle ==
    /\ inp = [file |-> "none"]
    /\ df = <<>>
    /\ pc = "NotRun"
    /\ results = <<>>
    /\ stdout = <<>>
    /\ exitCode = -1
    /\ trace = <<>>

InitFM ==
    /\ AnalyzeIdle
    /\ fexists \in BOOLEAN
    /\ fdata \in {ConsistentFile(fs) : fs \in IF fexists THEN InitFeatureLists ELSE {<<>>}}
    /\ cmds = 0
    /\ fmOut = [cmd |-> "none"]
    /\ fmExit = 0
    /\ hist = <<>>

\* load_features when feature_list.json is missing: message, sys.exit(1).
NoFile(cmd, arg) ==
    /\ ~fexists
    /\ fmOut' = [cmd |-> cmd, error |-> "feature_list.json not found"]
    /\ fmExit' = 1
    /\ hist' = Remember(HistRec(cmd, arg, FALSE))
    /\ UNCHANGED <<fexists, fdata>>

CmdStatus ==
    /\ cmds < MaxCmds
    /\ cmds' = cmds + 1
    /\ UNCHANGED avars
    /\ IF ~fexists THEN NoFile("status", NONE)
       ELSE LET total == Len(fdata.features)
                passing == CountPassing(fdata.features)
                failing == total - passing
            IN /\ fmOut' = [cmd |-> "status",
                            total |-> total,
                            passing |-> passing,
                            failing |-> failing,
                            passing_pct |-> IF total # 0 THEN (100 * passing) \div total ELSE 0,
                            failing_pct |-> IF total # 0 THEN (100 * failing) \div total ELSE 0,
                            last_updated |-> fdata.metadata.last_updated,
                            bar_filled |-> IF total > 0 THEN (30 * passing) \div total ELSE 0]
               /\ fmExit' = 0
               /\ hist' = Remember(HistRec("status", NONE, FALSE))
               /\ UNCHANGED <<fexists, fdata>>

CmdList ==
    /\ cmds < MaxCmds
    /\ cmds' = cmds + 1
    /\ UNCHANGED avars
    /\ IF ~fexists THEN NoFile("list", NONE)
       ELSE /\ fmOut' = [cmd |-> "list",
                         lines |-> [i \in 1..Len(fdata.features) |->
                                      [status |-> fdata.features[i].passes,
                                       fid |-> fdata.features[i].id,
                                       priority |-> fdata.features[i].priority,
                                       desc |-> fdata.features[i].description]]]
            /\ fmExit' = 0
            /\ hist' = Remember(HistRec("list", NONE, FALSE))
            /\ UNCHANGED <<fexists, fdata>>

CmdNext ==
    /\ cmds < MaxCmds
    /\ cmds' = cmds + 1
    /\ UNCHANGED avars
    /\ IF ~fexists THEN NoFile("next", NONE)
       ELSE /\ fmOut' = IF Failing(fdata.features) = <<>>
                        THEN [cmd |-> "next", all_passing |-> TRUE]
                        ELSE [cmd |-> "next", all_passing |-> FALSE,
                              feature |-> NextFeature(fdata.features),
                              remaining |-> Len(Failing(fdata.features))]
            /\ fmExit' = 0
            /\ hist' = Remember(HistRec("next", NONE, FALSE))
            /\ UNCHANGED <<fexists, fdata>>

\* cmd_pass(sys.argv[2].upper())
CmdPass(arg) ==
    /\ cmds < MaxCmds
    /\ cmds' = cmds + 1
    /\ UNCHANGED avars
    /\ IF ~fexists THEN NoFile("pass", Upper(arg))
       ELSE LET fid == Upper(arg)
                i == FirstIndex(fdata.features, fid)
            IN /\ fmExit' = 0
               /\ UNCHANGED fexists
               /\ IF i = 0
                  THEN /\ fmOut' = [cmd |-> "pass", msg |-> "not found", fid |-> fid]
                       /\ hist' = Remember(HistRec("pass", fid, FALSE))
                       /\ UNCHANGED fdata
                  ELSE IF fdata.features[i].passes
                  THEN /\ fmOut' = [cmd |-> "pass", msg |-> "already passing", fid |-> fid]
                       /\ hist' = Remember(HistRec("pass", fid, FALSE))
                       /\ UNCHANGED fdata
                  ELSE /\ fdata' = SaveFeatures(
                                     [fdata EXCEPT !.features = SetPasses(@, fid, TRUE)],
                                     cmds + 1)
                       /\ fmOut' = [cmd |-> "pass", msg |-> "marked PASSING", fid |-> fid]
                       /\ hist' = Remember(HistRec("pass", fid, TRUE))

\* cmd_fail(sys.argv[2].upper())
CmdFail(arg) ==
    /\ cmds < MaxCmds
    /\ cmds' = cmds + 1
    /\ UNCHANGED avars
    /\ IF ~fexists THEN NoFile("fail", Upper(arg))
       ELSE LET fid == Upper(arg)
                i == FirstIndex(fdata.features, fid)
            IN /\ fmExit' = 0
               /\ UNCHANGED fexists
               /\ IF i = 0
                  THEN /\ fmOut' = [cmd |-> "fail", msg |-> "not found", fid |-> fid]
                       /\ hist' = Remember(HistRec("fail", fid, FALSE))
                       /\ UNCHANGED fdata
                  ELSE IF ~fdata.features[i].passes
                  THEN /\ fmOut' = [cmd |-> "fail", msg |-> "already failing", fid |-> fid]
                       /\ hist' = Remember(HistRec("fail", fid, FALSE))
                       /\ UNCHANGED fdata
                  ELSE /\ fdata' = SaveFeatures(
                                     [fdata EXCEPT !.features = SetPasses(@, fid, FALSE)],
                                     cmds + 1)
                       /\ fmOut' = [cmd |-> "fail", msg |-> "marked FAILING", fid |-> fid]
                       /\ hist' = Remember(HistRec("fail", fid, TRUE))

\* cmd_add(" ".join(sys.argv[2:]))
CmdAdd(description) ==
    /\ cmds < MaxCmds
    /\ cmds' = cmds + 1
    /\ UNCHANGED avars
    /\ IF ~fexists THEN NoFile("add", description)
       ELSE /\ fdata' = SaveFeatures(
                          [fdata EXCEPT !.features =
                              Append(@, NewFeature(fdata.features, description))],
                          cmds + 1)
            /\ fmOut' = [cmd |-> "add", fid |-> NewId(fdata.features)]
            /\ fmExit' = 0
            /\ hist' = Remember(HistRec("add", description, TRUE))
            /\ UNCHANGED fexists

\* main(): no command, an unknown command, or pass/fail/add without its
\* argument prints the usage and exits 1 without touching the file.
Usage ==
    /\ cmds < MaxCmds
    /\ cmds' = cmds + 1
    /\ UNCHANGED avars
    /\ fmOut' = [cmd |-> "usage"]
    /\ fmExit' = 1
    /\ hist' = Remember(HistRec("usage", NONE, FALSE))
    /\ UNCHANGED <<fexists, fdata>>

NextFM ==
    \/ CmdStatus
    \/ CmdList
    \/ CmdNext
    \/ \E a \in PassArgs : CmdPass(a)
    \/ \E a \in PassArgs : CmdFail(a)
    \/ \E d \in Descriptions : CmdAdd(d)
    \/ Usage

SpecFM == InitFM /\ [][NextFM]_vars

(***************************************************************************)
(*                              analyze.py                                 *)
(*                                                                         *)
(* pandas is modelled by what its calls do on the frames the model builds: *)
(* a column has a kind (the dtype pandas infers at load), a cell is a      *)
(* tagged value, NaN stands for NaN, NaT and None.                         *)
(***************************************************************************)

\* Bounds of the analyze model: rows of an ordinary table, and rows of the
\* long two-valued tables that exceed the head(5) and head(10) samples.
MaxRows == 2

WideLen == 12

\* argparse default of --n.
DefaultN == 10

\* head(3) of info, head(5) of filter, head(10) of duplicates, [:100] of unique.
InfoSample == 3

FilterSample == 5

DupSample == 10

UniqueCap == 100

Kinds == {"Integer", "Float", "String", "Boolean", "DateTime", "Null"}

\* str(dtype) of a column of each kind.
DtypeLabel(k) ==
    CASE k = "Integer" -> "int64"
      [] k = "Float" -> "float64"
      [] k = "String" -> "object"
      [] k = "Boolean" -> "bool"
      [] k = "DateTime" -> "datetime64[ns]"
      [] k = "Null" -> "float64"

Num(n) == [t |-> "num", v |-> n]

\* Text: v = 0 is text that is no number ("x"), v > 0 text that reads as
\* the number v ("7").
Str(n) == [t |-> "str", v |-> n]

Bool(n) == [t |-> "bool", v |-> n]

Ts(n) == [t |-> "ts", v |-> n]

NaN == [t |-> "nan", v |-> 0]

IsNull(c) == c.t = "nan"

\* The cells a column of each kind can hold after loading: an int64 or
\* bool column has no missing value, a Null column nothing else.
CellsOf(k) ==
    CASE k = "Integer" -> {Num(1), Num(2)}
      [] k = "Float" -> {Num(1), Num(2), NaN}
      [] k = "String" -> {Str(0), Str(7), NaN}
      [] k = "Boolean" -> {Bool(0), Bool(1)}
      [] k = "DateTime" -> {Ts(1), NaN}
      [] k = "Null" -> {NaN}

ColumnNames == <<"a", "b">>

\* Frames with n >= 1 rows: column a of any kind, column b int64.  A
\* float64 column with no number in it is the Null column.
FramesOfLen(n) ==
    {[columns |-> ColumnNames, kinds |-> [a |-> k, b |-> "Integer"], rows |-> rs] :
        k \in Kinds, rs \in [1..n -> [a : UNION {CellsOf(kk) : kk \in Kinds}, b : CellsOf("Integer")]]}

WellTyped(f) ==
    /\ \A i \in 1..Len(f.rows) : f.rows[i].a \in CellsOf(f.kinds.a)
    /\ f.kinds.a = "Float" => \E i \in 1..Len(f.rows) : ~IsNull(f.rows[i].a)

\* A file with a header and no data row loads as object columns.
EmptyFrame ==
    [columns |-> ColumnNames, kinds |-> [a |-> "String", b |-> "String"], rows |-> <<>>]

SmallFrames ==
    {EmptyFrame} \cup
    UNION {{f \in FramesOfLen(n) : WellTyped(f)} : n \in 1..MaxRows}

WideRows == {[a |-> Num(1), b |-> Num(1)], [a |-> Num(1), b |-> Num(2)]}

WideFrames ==
    {[columns |-> ColumnNames, kinds |-> [a |-> "Integer", b |-> "Integer"], rows |-> rs] :
        rs \in [1..WideLen -> WideRows]}

\* ---- the request: the keyword arguments main() passes to analyze()

\* --columns and --condition are texts the code takes apart: a sequence of
\* characters (a column name counts as one character).
NoText == [given |-> FALSE, chars |-> <<>>]

Text(cs) == [given |-> TRUE, chars |-> cs]

BaseReq ==
    [operation |-> "info", column |-> NONE, column1 |-> NONE, column2 |-> NONE,
     columns |-> NoText, n |-> DefaultN, group_by |-> NONE, aggregate |-> NONE,
     condition |-> NoText]

ColArgs == {NONE, "", "a", "b", "zz"}

PairArgs == {NONE, "a", "b", "zz"}

DupArgs ==
    {NoText, Text(<<>>), Text(<<"a">>), Text(<<"b">>), Text(<<"a", ",", "b">>),
     Text(<<" ", "a", ",", " ", "b", " ">>), Text(<<"a", ",", "zz">>), Text(<<"b", ",">>)}

Conditions ==
    {NoText, Text(<<>>), Text(<<"b", ">">>), Text(<<"b", ">", "zz">>)} \cup
    {Text(<<c, o, "1">>) : c \in {"a", "b", "zz"}, o \in {">", "=="}}

SmallRequests ==
    {[BaseReq EXCEPT !.operation = o] : o \in {"info", "median"}}
    \cup {[BaseReq EXCEPT !.operation = o, !.column = c, !.n = k] :
            o \in {"top_n", "bottom_n"}, c \in ColArgs, k \in {1, DefaultN}}
    \cup {[BaseReq EXCEPT !.operation = o, !.column = c] :
            o \in {"sum", "mean", "stats", "unique"}, c \in ColArgs}
    \cup {[BaseReq EXCEPT !.operation = "group_by", !.group_by = g, !.aggregate = c] :
            g \in PairArgs, c \in PairArgs}
    \cup {[BaseReq EXCEPT !.operation = "correlate", !.column1 = g, !.column2 = c] :
            g \in PairArgs, c \in PairArgs}
    \cup {[BaseReq EXCEPT !.operation = "duplicates", !.columns = d] : d \in DupArgs}
    \cup {[BaseReq EXCEPT !.operation = "filter", !.condition = c] : c \in Conditions}

WideRequests ==
    {[BaseReq EXCEPT !.operation = "duplicates", !.columns = d] :
        d \in {Text(<<"a">>), Text(<<"b">>)}}
    \cup {[BaseReq EXCEPT !.operation = "filter", !.condition = Text(<<"b", ">", "1">>)]}
    \cup {[BaseReq EXCEPT !.operation = o, !.column = "b", !.n = 2 * DefaultN] :
            o \in {"top_n", "bottom_n"}}

\* What is at filepath: nothing, a file of another type, a file the
\* pandas reader rejects, or a file holding a frame.
Files ==
    {[state |-> st, suffix |-> sf, frame |-> EmptyFrame] :
        st \in {"missing"}, sf \in {".csv"}}
    \cup {[state |-> "present", suffix |-> ".txt", frame |-> EmptyFrame]}
    \cup {[state |-> "corrupt", suffix |-> ".csv", frame |-> EmptyFrame]}

\* read_csv infers no datetime column: such a frame comes from a spreadsheet.
SuffixOf(f) == IF f.kinds.a = "DateTime" THEN ".xlsx" ELSE ".csv"

FMIdle ==
    /\ fexists = FALSE
    /\ fdata = ConsistentFile(<<>>)
    /\ cmds = 0
    /\ fmOut = [cmd |-> "none"]
    /\ fmExit = 0
    /\ hist = <<>>

\* The invocations of the model: a file that does not load with any
\* request, an ordinary frame with any request, a long frame with the
\* requests that sample it.
Inputs(group) ==
    CASE group = "unloadable" ->
            {[file |-> fl, req |-> r] : fl \in Files, r \in SmallRequests}
      [] group = "small" ->
            {[file |-> [state |-> "present", suffix |-> SuffixOf(f), frame |-> f], req |-> r] :
                f \in SmallFrames, r \in SmallRequests}
      [] group = "wide" ->
            {[file |-> [state |-> "present", suffix |-> ".csv", frame |-> f], req |-> r] :
                f \in WideFrames, r \in WideRequests}

Init ==
    /\ FMIdle
    /\ \E group \in {"unloadable", "small", "wide"} : inp \in Inputs(group)
    /\ df = EmptyFrame
    /\ pc = "Idle"
    /\ results = <<>>
    /\ stdout = <<>>
    /\ exitCode = -1
    /\ trace = <<"Idle">>

\* ---- helpers over frames

\* col in df.columns (None is in no frame).
HasColumn(f, c) == \E i \in 1..Len(f.columns) : f.columns[i] = c

\* df[c] as a sequence of cells.
Col(f, c) == [i \in 1..Len(f.rows) |-> f.rows[i][c]]

Indices(f) == [i \in 1..Len(f.rows) |-> i]

HasText(f, c) == \E i \in 1..Len(f.rows) : f.rows[i][c].t = "str"

HasPlainText(f, c) == \E i \in 1..Len(f.rows) : f.rows[i][c] = Str(0)

HasNull(f, c) == \E i \in 1..Len(f.rows) : IsNull(f.rows[i][c])

\* head(k)
Head2(s, k) == SubSeq(s, 1, IF k < Len(s) THEN k ELSE Len(s))

\* str() of a parameter inside an f-string.
PyStr(x) == IF x = NONE THEN "None" ELSE x

\* An error message: the f-string and what is interpolated into it.
Msg(fmt, names, lists) == [fmt |-> fmt, names |-> names, lists |-> lists]

ColumnNotFound(f, c) ==
    Msg("Column '{}' not found. Available: {}", <<PyStr(c)>>, <<f.columns>>)

\* ---- --columns: split(","), strip()

RECURSIVE SplitComma(_)
SplitComma(cs) ==
    IF \A i \in 1..Len(cs) : cs[i] # ","
    THEN <<cs>>
    ELSE LET k == Min({i \in 1..Len(cs) : cs[i] = ","})
         IN <<SubSeq(cs, 1, k - 1)>> \o SplitComma(SubSeq(cs, k + 1, Len(cs)))

RECURSIVE Strip(_)
Strip(cs) ==
    IF cs = <<>> THEN cs
    ELSE IF cs[1] = " " THEN Strip(Tail(cs))
    ELSE IF cs[Len(cs)] = " " THEN Strip(SubSeq(cs, 1, Len(cs) - 1))
    ELSE cs

RECURSIVE Join(_)
Join(cs) == IF cs = <<>> THEN "" ELSE cs[1] \o Join(Tail(cs))

\* subset of duplicates: None when --columns is absent or empty.
Subset(req) ==
    IF req.columns.given /\ req.columns.chars # <<>>
    THEN [given |-> TRUE,
          cols |-> [i \in 1..Len(SplitComma(req.columns.chars)) |->
                      Join(Strip(SplitComma(req.columns.chars)[i]))]]
    ELSE [given |-> FALSE, cols |-> <<>>]

\* `if col:` of stats.
Truthy(c) == c # NONE /\ c # ""

\* ---- the checks each branch makes before it calls pandas

Valid == [ok |-> TRUE, error |-> Msg("", <<>>, <<>>)]

Invalid(m) == [ok |-> FALSE, error |-> m]

CorrelateCheck(req, f) ==
    IF ~HasColumn(f, req.column1) \/ ~HasColumn(f, req.column2)
    THEN Invalid(Msg("Columns not found. Available: {}", <<>>, <<f.columns>>))
    ELSE Valid

DuplicatesCheck(req, f) ==
    LET sub == Subset(req)
        bad == {i \in 1..Len(sub.cols) : ~HasColumn(f, sub.cols[i])}
    IN IF sub.given /\ bad # {}
       THEN Invalid(ColumnNotFound(f, sub.cols[Min(bad)]))
       ELSE Valid

Operations ==
    {"info", "top_n", "bottom_n", "sum", "mean", "stats", "group_by", "filter",
     "unique", "duplicates", "correlate"}

Validation(req, f) ==
    LET op == req.operation
    IN CASE op = "info" -> Valid
         [] op \in {"top_n", "bottom_n", "sum", "mean", "unique"} ->
              IF HasColumn(f, req.column) THEN Valid
              ELSE Invalid(ColumnNotFound(f, req.column))
         [] op = "stats" ->
              IF Truthy(req.column) /\ ~HasColumn(f, req.column)
              THEN Invalid(ColumnNotFound(f, req.column))
              ELSE Valid
         [] op = "group_by" ->
              IF ~HasColumn(f, req.group_by)
              THEN Invalid(Msg("Group column '{}' not found. Available: {}",
                               <<PyStr(req.group_by)>>, <<f.columns>>))
              ELSE IF ~HasColumn(f, req.aggregate)
              THEN Invalid(Msg("Aggregate column '{}' not found. Available: {}",
                               <<PyStr(req.aggregate)>>, <<f.columns>>))
              ELSE Valid
         [] op = "filter" -> Valid
         [] op = "duplicates" -> DuplicatesCheck(req, f)
         [] op = "correlate" -> CorrelateCheck(req, f)
         [] OTHER ->
              Invalid(Msg("Unknown operation: {}. Available: info, top_n, bottom_n, sum, mean, stats, group_by, filter, unique, duplicates, correlate",
                          <<op>>, <<>>))

\* ---- pandas calls of the branches

\* Whether row j comes before row i in the stable sort by key, descending
\* or ascending: ties keep the row order.
SortsBefore(j, i, key, desc) ==
    \/ IF desc THEN key[j] > key[i] ELSE key[j] < key[i]
    \/ key[j] = key[i] /\ j < i

\* Stable sort of the row indices in S by key.
SortIdx(S, key, desc) ==
    [k \in 1..Cardinality(S) |->
        CHOOSE i \in S : Cardinality({j \in S : SortsBefore(j, i, key, desc)}) = k - 1]

\* The indices in S in row order.
InOrder(f, S) == SelectSeq(Indices(f), LAMBDA i : i \in S)

RowsAt(f, idx) == [k \in 1..Len(idx) |-> f.rows[idx[k]]]

\* nlargest / nsmallest as pandas releases before the missing values were
\* kept did it: over the rows with a value only.
SelectNDropNa(f, c, n, desc) ==
    IF n <= 0 THEN <<>>
    ELSE Head2(SortIdx({i \in 1..Len(f.rows) : ~IsNull(f.rows[i][c])},
                       [i \in 1..Len(f.rows) |-> f.rows[i][c].v], desc), n)

\* df.nlargest(n, c) / df.nsmallest(n, c) with keep="first": the rows with
\* a value in sorted order, ties in row order, then the rows with a missing
\* value in row order, cut to n.
SelectN(f, c, n, desc) ==
    IF n <= 0 THEN <<>>
    ELSE Head2(SortIdx({i \in 1..Len(f.rows) : ~IsNull(f.rows[i][c])},
                       [i \in 1..Len(f.rows) |-> f.rows[i][c].v], desc)
               \o InOrder(f, {i \in 1..Len(f.rows) : IsNull(f.rows[i][c])}), n)

\* Series.sum() with skipna: of the numbers, of the True of a bool column.
RECURSIVE SumCells(_)
SumCells(cs) ==
    IF cs = <<>> THEN 0
    ELSE (IF IsNull(cs[1]) THEN 0 ELSE cs[1].v) + SumCells(Tail(cs))

CountCells(cs) == Cardinality({i \in 1..Len(cs) : ~IsNull(cs[i])})

\* Series.unique(): the distinct values in first-seen order.
RECURSIVE UniqueCells(_)
UniqueCells(cs) ==
    IF cs = <<>> THEN <<>>
    ELSE LET init == UniqueCells(SubSeq(cs, 1, Len(cs) - 1))
             last == cs[Len(cs)]
         IN IF \E i \in 1..Len(init) : init[i] = last THEN init ELSE Append(init, last)

\* duplicated(subset, keep="first"): the repeats after the first copy.
DuplicatedFirst(f, S) ==
    {i \in 1..Len(f.rows) :
        \E j \in 1..(i - 1) : [c \in S |-> f.rows[j][c]] = [c \in S |-> f.rows[i][c]]}

\* df.duplicated(subset=S, keep=False): the rows whose key on S occurs
\* more than once (missing values are equal to one another).
Duplicated(f, S) ==
    {i \in 1..Len(f.rows) :
        Cardinality({j \in 1..Len(f.rows) :
            [c \in S |-> f.rows[j][c]] = [c \in S |-> f.rows[i][c]]}) > 1}

\* The columns duplicated() compares: the subset, or all columns.
SubsetColumns(req, f) ==
    IF Subset(req).given
    THEN {Subset(req).cols[i] : i \in 1..Len(Subset(req).cols)}
    ELSE {f.columns[i] : i \in 1..Len(f.columns)}

\* df.groupby(g)[c].sum(): one entry per value of g (rows with a missing g
\* are dropped), the sum of c over the rows of the group.
GroupSums(f, g, c) ==
    {[key |-> k,
      sum |-> SumCells(Col(f, c)) -
              SumCells([i \in 1..Len(f.rows) |->
                          IF f.rows[i][g] = k THEN NaN ELSE f.rows[i][c]])] :
        k \in {f.rows[i][g] : i \in {j \in 1..Len(f.rows) : ~IsNull(f.rows[j][g])}}}

\* Series.corr: over the rows where both columns have a value, n times the
\* co-moment and the two second moments (r = cov / sqrt(varx * vary)).
Moments(f, c1, c2) ==
    LET P == {i \in 1..Len(f.rows) : ~IsNull(f.rows[i][c1]) /\ ~IsNull(f.rows[i][c2])}
        x == [i \in 1..Len(f.rows) |-> IF i \in P THEN Num(f.rows[i][c1].v) ELSE NaN]
        y == [i \in 1..Len(f.rows) |-> IF i \in P THEN Num(f.rows[i][c2].v) ELSE NaN]
        xy == [i \in 1..Len(f.rows) |-> IF i \in P THEN Num(f.rows[i][c1].v * f.rows[i][c2].v) ELSE NaN]
        xx == [i \in 1..Len(f.rows) |-> IF i \in P THEN Num(f.rows[i][c1].v * f.rows[i][c1].v) ELSE NaN]
        yy == [i \in 1..Len(f.rows) |-> IF i \in P THEN Num(f.rows[i][c2].v * f.rows[i][c2].v) ELSE NaN]
        n == Cardinality(P)
    IN [cov |-> n * SumCells(xy) - SumCells(x) * SumCells(y),
        varx |-> n * SumCells(xx) - SumCells(x) * SumCells(x),
        vary |-> n * SumCells(yy) - SumCells(y) * SumCells(y)]

\* The bucket of the coefficient; a NaN coefficient (no variance) fails
\* every comparison and is "moderate".
Interpretation(m) ==
    IF m.varx * m.vary = 0 THEN "moderate"
    ELSE IF m.cov > 0 /\ 100 * m.cov * m.cov > 49 * m.varx * m.vary THEN "strong positive"
    ELSE IF m.cov < 0 /\ 100 * m.cov * m.cov > 49 * m.varx * m.vary THEN "strong negative"
    ELSE IF 100 * m.cov * m.cov < 9 * m.varx * m.vary THEN "weak"
    ELSE "moderate"

\* ---- df.query(condition)

CmpOps == {">", "=="}

IsLiteral(tok) == tok \in {"1", "2"}

LitValue(tok) == IF tok = "1" THEN 1 ELSE 2

IsOperand(tok) == tok \notin CmpOps /\ tok # " " /\ tok # ","

\* What compiling the condition finds: "none" (not a string), "empty",
\* "syntax", "undefined" (a name that is no column) or "ok".
QueryCompile(cond, f) ==
    IF ~cond.given THEN "none"
    ELSE IF cond.chars = <<>> THEN "empty"
    ELSE IF \/ Len(cond.chars) # 3
            \/ ~IsOperand(cond.chars[1])
            \/ cond.chars[2] \notin CmpOps
            \/ ~IsOperand(cond.chars[3]) THEN "syntax"
    ELSE IF \E k \in {1, 3} : ~IsLiteral(cond.chars[k]) /\ ~HasColumn(f, cond.chars[k])
    THEN "undefined"
    ELSE "ok"

Operand(row, tok) == IF IsLiteral(tok) THEN Num(LitValue(tok)) ELSE row[tok]

IsNumber(c) == c.t \in {"num", "bool"}

\* An ordering comparison of text with a number raises TypeError.
CompareRaises(x, y, op) ==
    /\ op = ">"
    /\ \/ x.t = "str" /\ y.t \in {"num", "bool", "ts"}
       \/ y.t = "str" /\ x.t \in {"num", "bool", "ts"}

\* The value of a comparison that does not raise: a missing value compares
\* false, text never equals a number, a number beside a datetime column is
\* read as a Timestamp (nanoseconds after the epoch, before every date of
\* the frames here).
CompareTrue(x, y, op) ==
    IF IsNull(x) \/ IsNull(y) THEN FALSE
    ELSE IF (IsNumber(x) /\ IsNumber(y)) \/ (x.t = y.t)
    THEN IF op = ">" THEN x.v > y.v ELSE x.v = y.v
    ELSE IF x.t = "ts" /\ IsNumber(y) THEN op = ">"
    ELSE FALSE

\* The rows the mask of the compiled condition selects.
QueryRows(cond, f) ==
    {i \in 1..Len(f.rows) :
        CompareTrue(Operand(f.rows[i], cond.chars[1]),
                    Operand(f.rows[i], cond.chars[3]), cond.chars[2])}

QueryRaises(cond, f) ==
    \/ QueryCompile(cond, f) # "ok"
    \/ \E i \in 1..Len(f.rows) :
          CompareRaises(Operand(f.rows[i], cond.chars[1]),
                        Operand(f.rows[i], cond.chars[3]), cond.chars[2])

\* round(x, 2) of the quotient num / den, in hundredths: to the nearest,
\* a tie to the even one.
RoundHalfEven(num, den) ==
    LET q == num \div den
        r == num % den
    IN IF 2 * r < den THEN q
       ELSE IF 2 * r > den THEN q + 1
       ELSE IF q % 2 = 0 THEN q ELSE q + 1

\* The result of the filter branch; percentage in hundredths of a percent.
FilterPayload(cond, f) ==
    LET hit == InOrder(f, QueryRows(cond, f))
    IN [matching_rows |-> Len(hit),
        total_rows |-> Len(f.rows),
        percentage |-> RoundHalfEven(10000 * Len(hit), Len(f.rows)),
        sample |-> RowsAt(f, Head2(hit, FilterSample))]

\* ---- which calls raise

NumericKinds == {"Integer", "Float", "Null"}

\* Whether the pandas calls of the branch raise: {TRUE}, {FALSE}, or both
\* where releases of pandas differ.
MayRaise(req, f) ==
    LET op == req.operation
        c == req.column
    IN CASE op \in {"info", "stats", "unique", "duplicates"} -> {FALSE}
         [] op \in {"top_n", "bottom_n"} ->
              \* nlargest rejects an object column by its dtype
              {f.kinds[c] = "String"}
         [] op = "sum" ->
              \* a datetime column has no sum; text is concatenated and
              \* float() of the result raises unless it reads as a number;
              \* a missing value beside text is 0 + text
              IF f.kinds[c] = "DateTime" THEN {TRUE}
              ELSE IF f.kinds[c] = "String"
              THEN {HasText(f, c) /\ (HasPlainText(f, c) \/ HasNull(f, c))}
              ELSE {FALSE}
         [] op = "mean" ->
              \* float() of a Timestamp raises; the mean of text that reads
              \* as numbers is a number in pandas 1 and raises in pandas 2
              IF f.kinds[c] = "DateTime" THEN {TRUE}
              ELSE IF f.kinds[c] = "String"
              THEN IF ~HasText(f, c) THEN {FALSE}
                   ELSE IF HasPlainText(f, c) \/ HasNull(f, c) THEN {TRUE}
                   ELSE BOOLEAN
              ELSE {FALSE}
         [] op = "group_by" ->
              IF f.kinds[req.aggregate] = "DateTime" THEN {TRUE}
              ELSE IF f.kinds[req.aggregate] = "String"
                      /\ HasText(f, req.aggregate) /\ HasNull(f, req.aggregate)
              THEN BOOLEAN
              ELSE {FALSE}
         [] op = "correlate" ->
              \* no row: NaN before any conversion; text that is no number
              \* does not convert to float
              IF f.rows = <<>> THEN {FALSE}
              ELSE IF HasPlainText(f, req.column1) \/ HasPlainText(f, req.column2)
              THEN {TRUE}
              ELSE IF "DateTime" \in {f.kinds[req.column1], f.kinds[req.column2]}
              THEN BOOLEAN
              ELSE {FALSE}
         [] op = "filter" ->
              \* len(filtered) / len(df) divides by zero on a frame without rows
              {QueryRaises(req.condition, f) \/ f.rows = <<>>}

\* Text that reads as numbers, concatenated and read as one number.
RECURSIVE ConcatNumber(_)
ConcatNumber(cs) ==
    IF cs = <<>> THEN 0
    ELSE 10 * ConcatNumber(SubSeq(cs, 1, Len(cs) - 1)) + cs[Len(cs)].v

\* The columns df.describe() reports: the numeric ones, or all when there
\* is none.
Described(f) ==
    LET numeric == SelectSeq(f.columns, LAMBDA c : f.kinds[c] \in NumericKinds)
    IN IF numeric = <<>> THEN f.columns ELSE numeric

\* results["result"] of each branch.  memory_mb of info and the moments
\* of describe() other than count are left out.
Payload(req, f) ==
    LET op == req.operation
        c == req.column
    IN CASE op = "info" ->
              [shape |-> <<Len(f.rows), Len(f.columns)>>,
               null_counts |-> [k \in {f.columns[i] : i \in 1..Len(f.columns)} |->
                                  Cardinality({i \in 1..Len(f.rows) : IsNull(f.rows[i][k])})],
               sample |-> Head2(f.rows, InfoSample)]
         [] op = "top_n" -> RowsAt(f, SelectN(f, c, req.n, TRUE))
         [] op = "bottom_n" -> RowsAt(f, SelectN(f, c, req.n, FALSE))
         [] op = "sum" ->
              IF f.kinds[c] = "String" /\ HasText(f, c)
              THEN ConcatNumber(Col(f, c)) ELSE SumCells(Col(f, c))
         [] op = "mean" ->
              [sum |-> SumCells(Col(f, c)), count |-> CountCells(Col(f, c))]
         [] op = "stats" ->
              LET cols == IF Truthy(c) THEN <<c>> ELSE Described(f)
              IN [k \in {cols[i] : i \in 1..Len(cols)} |-> [count |-> CountCells(Col(f, k))]]
         [] op = "group_by" -> GroupSums(f, req.group_by, req.aggregate)
         [] op = "filter" -> FilterPayload(req.condition, f)
         [] op = "unique" ->
              LET u == UniqueCells(Col(f, c))
              IN [unique_count |-> Len(u),
                  values |-> IF Len(u) > UniqueCap THEN SubSeq(u, 1, UniqueCap) ELSE u]
         [] op = "duplicates" ->
              LET d == InOrder(f, Duplicated(f, SubsetColumns(req, f)))
              IN [duplicate_rows |-> Len(d), sample |-> RowsAt(f, Head2(d, DupSample))]
         [] op = "correlate" ->
              [correlation |-> Moments(f, req.column1, req.column2),
               interpretation |-> Interpretation(Moments(f, req.column1, req.column2))]

\* str(e) of the exception the branch raised.
ExcMessage(req, f) ==
    IF req.operation = "filter"
    THEN Msg("Invalid filter condition: {}. Error: {}", <<>>, <<req.condition.chars>>)
    ELSE Msg("{}", <<>>, <<>>)

\* json.dumps(result, default=str) raises on a dict key that is no str,
\* int, float, bool or None: the Timestamp keys of a group_by over a
\* datetime column.
JsonSerializable(req, f, res) ==
    ~(/\ req.operation = "group_by"
      /\ f.kinds[req.group_by] = "DateTime"
      /\ res.result # {})

\* ---- the run

Suffixes == {".csv", ".xlsx", ".xls", ".json"}

\* analyze() returns {"error": ...}; main() prints it and exits 1.
Fail(m) ==
    /\ results' = [error |-> m]
    /\ stdout' = Append(stdout, [error |-> m])
    /\ exitCode' = 1
    /\ pc' = "Errored"
    /\ trace' = Append(trace, "Errored")

\* An exception nothing catches: traceback, exit code 1, nothing printed.
Crash ==
    /\ exitCode' = 1
    /\ pc' = "Crashed"
    /\ trace' = Append(trace, "Crashed")
    /\ UNCHANGED <<results, stdout>>

\* analyze.py lines 25-46: find the file, read it, build the result header.
Load ==
    /\ pc = "Idle"
    /\ UNCHANGED <<inp, fvars>>
    /\ IF inp.file.state = "missing"
       THEN Fail(Msg("File not found: {}", <<"data" \o inp.file.suffix>>, <<>>))
            /\ UNCHANGED df
       ELSE IF inp.file.suffix \notin Suffixes
       THEN Fail(Msg("Unsupported file type: {}", <<inp.file.suffix>>, <<>>))
            /\ UNCHANGED df
       ELSE IF inp.file.state = "corrupt"
       THEN Crash /\ UNCHANGED df
       ELSE /\ df' = inp.file.frame
            /\ results' = [file |-> "data" \o inp.file.suffix,
                           rows |-> Len(inp.file.frame.rows),
                           columns |-> inp.file.frame.columns,
                           dtypes |-> [c \in {"a", "b"} |-> DtypeLabel(inp.file.frame.kinds[c])],
                           operation |-> inp.req.operation,
                           result |-> NONE]
            /\ pc' = "Validating"
            /\ trace' = Append(trace, "Validating")
            /\ UNCHANGED <<stdout, exitCode>>

\* The operation chain up to the pandas call of the branch: the operation
\* name and the `not in df.columns` checks.
Validate ==
    /\ pc = "Validating"
    /\ UNCHANGED <<inp, df, fvars>>
    /\ IF Validation(inp.req, df).ok
       THEN /\ pc' = "Executing"
            /\ trace' = Append(trace, "Executing")
            /\ UNCHANGED <<results, stdout, exitCode>>
       ELSE Fail(Validation(inp.req, df).error)

\* The pandas calls of the branch, inside the try: the payload is stored
\* and results returned, or the exception becomes an error result.
Execute ==
    /\ pc = "Executing"
    /\ UNCHANGED <<inp, df, fvars>>
    /\ \E raised \in MayRaise(inp.req, df) :
          IF raised
          THEN Fail(ExcMessage(inp.req, df))
          ELSE /\ results' = [results EXCEPT !.result = Payload(inp.req, df)]
               /\ pc' = "Serialized"
               /\ trace' = Append(trace, "Serialized")
               /\ UNCHANGED <<stdout, exitCode>>

\* main() lines 187-191 on a result without an error key.
Serialize ==
    /\ pc = "Serialized"
    /\ UNCHANGED <<inp, df, fvars>>
    /\ IF JsonSerializable(inp.req, df, results)
       THEN /\ stdout' = Append(stdout, results)
            /\ exitCode' = 0
            /\ pc' = "Success"
            /\ trace' = Append(trace, "Success")
            /\ UNCHANGED results
       ELSE Crash

Next ==
    \/ Load
    \/ Validate
    \/ Execute
    \/ Serialize

Spec == Init /\ [][Next]_vars

(***************************************************************************)
(*                      Properties of analyze.py                           *)
(***************************************************************************)

Terminated == pc \in {"Success", "Errored", "Crashed"}

\* The file was read into a frame.
Loaded == Len(trace) >= 2 /\ trace[2] = "Validating"

ColumnOperations ==
    {"top_n", "bottom_n", "sum", "mean", "stats", "group_by", "unique",
     "duplicates", "correlate"}

\* The column names a request refers to; a required column parameter left
\* out refers to the column None.
Referenced(req) ==
    LET op == req.operation
    IN CASE op \in {"top_n", "bottom_n", "sum", "mean", "unique"} -> {req.column}
         [] op = "stats" -> IF Truthy(req.column) THEN {req.column} ELSE {}
         [] op = "group_by" -> {req.group_by, req.aggregate}
         [] op = "correlate" -> {req.column1, req.column2}
         [] op = "duplicates" -> {Subset(req).cols[i] : i \in 1..Len(Subset(req).cols)}
         [] op = "filter" ->
              {req.condition.chars[i] : i \in {k \in 1..Len(req.condition.chars) :
                  IsOperand(req.condition.chars[k]) /\ ~IsLiteral(req.condition.chars[k])}}
         [] OTHER -> {}

Missing(req, f) == {c \in Referenced(req) : \A i \in 1..Len(f.columns) : f.columns[i] # c}

\* C1: a request of a column operation that refers to a column the table
\* does not have ends in an error result whose message names a missing
\* column and lists the columns of the table.
C1_MissingColumnNamed ==
    (/\ Terminated
     /\ Loaded
     /\ inp.req.operation \in ColumnOperations
     /\ Missing(inp.req, df) # {}) =>
        /\ pc = "Errored"
        /\ stdout = <<results>>
        /\ DOMAIN results = {"error"}
        /\ \E i \in 1..Len(results.error.names) :
              results.error.names[i] \in {PyStr(c) : c \in Missing(inp.req, df)}
        /\ \E i \in 1..Len(results.error.lists) : results.error.lists[i] = df.columns

PhaseRank(p) ==
    CASE p = "Idle" -> 1
      [] p = "Validating" -> 2
      [] p = "Executing" -> 3
      [] p = "Serialized" -> 4
      [] OTHER -> 5

\* C2: the run goes through Idle, Validating, Executing, Serialized and a
\* terminal state in this order, and is in Executing only when the
\* operation is one of the fixed set and every column the request refers
\* to, those of a filter condition included, is a column of the table.
C2_ExecutingOnlyValidated ==
    /\ \A i, j \in 1..Len(trace) : i < j => PhaseRank(trace[i]) < PhaseRank(trace[j])
    /\ pc = "Executing" =>
          /\ inp.req.operation \in Operations
          /\ Missing(inp.req, df) = {}

SuccessKeys == {"file", "rows", "columns", "dtypes", "operation", "result"}

\* C3: a finished invocation has printed exactly one result, which has
\* either the error key alone or the six success keys and no error key;
\* the exit code is non-zero exactly when the error key is there, and no
\* failure goes uncaught.
C3_ExactlyOneResult ==
    Terminated =>
        /\ pc # "Crashed"
        /\ Len(stdout) = 1
        /\ DOMAIN stdout[1] = {"error"} \/ DOMAIN stdout[1] = SuccessKeys
        /\ (exitCode # 0) <=> ("error" \in DOMAIN stdout[1])

\* The request runs a numeric reducer.
NumericReducer(req) ==
    \/ req.operation \in {"sum", "mean", "correlate", "top_n", "bottom_n"}
    \/ req.operation = "stats" /\ Truthy(req.column)

\* C4: a numeric reducer over an existing column whose kind is not Integer
\* or Float ends in an error result, never in Success.
C4_NonNumericIsError ==
    (/\ Terminated
     /\ Loaded
     /\ NumericReducer(inp.req)
     /\ Referenced(inp.req) # {}
     /\ Missing(inp.req, df) = {}
     /\ \E c \in Referenced(inp.req) : df.kinds[c] \notin {"Integer", "Float"}) =>
        /\ pc = "Errored"
        /\ DOMAIN stdout[1] = {"error"}

\* How often row r occurs in the sequence rs.
Occurrences(rs, r) == Cardinality({i \in 1..Len(rs) : rs[i] = r})

\* The request asks for at least every row of a numeric column.
FullRanking ==
    /\ Loaded
    /\ inp.req.operation \in {"top_n", "bottom_n"}
    /\ \E i \in 1..Len(df.columns) : df.columns[i] = inp.req.column
    /\ df.kinds[inp.req.column] \in {"Integer", "Float"}
    /\ inp.req.n >= Len(df.rows)

\* C5: top_n (bottom_n) over a numeric column, missing values allowed,
\* with n at least the row count succeeds with every row of the table
\* exactly once, the values of the column descending (ascending).
C5_FullTableSorted ==
    (Terminated /\ FullRanking) =>
        /\ pc = "Success"
        /\ LET out == stdout[1].result
               c == inp.req.column
           IN /\ Len(out) = Len(df.rows)
              /\ \A i \in 1..Len(df.rows) :
                    Occurrences(out, df.rows[i]) = Occurrences(df.rows, df.rows[i])
              /\ \A i, j \in 1..Len(out) :
                    (i < j /\ ~IsNull(out[i][c]) /\ ~IsNull(out[j][c])) =>
                        IF inp.req.operation = "top_n"
                        THEN out[i][c].v >= out[j][c].v
                        ELSE out[i][c].v <= out[j][c].v

\* top_n over a column whose first cell is missing and whose second is
\* not: the ranking moved the second row to the front.
C5_Witness ==
    /\ pc = "Success"
    /\ FullRanking
    /\ inp.req.operation = "top_n"
    /\ Len(df.rows) = 2
    /\ IsNull(df.rows[1][inp.req.column])
    /\ ~IsNull(df.rows[2][inp.req.column])
    /\ stdout[1].result = <<df.rows[2], df.rows[1]>>

\* The rows that have another row equal to them on the columns S.
HasTwin(f, S) ==
    {i \in 1..Len(f.rows) :
        \E j \in 1..Len(f.rows) : j # i /\ \A c \in S : f.rows[j][c] = f.rows[i][c]}

\* The k-th element of a set of row indices.
Kth(D, k) == CHOOSE i \in D : Cardinality({j \in D : j < i}) = k - 1

DuplicatesRequest ==
    /\ Loaded
    /\ inp.req.operation = "duplicates"
    /\ Missing(inp.req, df) = {}

\* C6: duplicates over a subset S of the columns (all columns by default)
\* counts exactly the rows that have another row equal on S, first copies
\* included, and samples the first 10 of them in row order.
C6_EveryCopyReported ==
    (Terminated /\ DuplicatesRequest) =>
        /\ pc = "Success"
        /\ LET S == IF Subset(inp.req).given
                    THEN Referenced(inp.req)
                    ELSE {df.columns[i] : i \in 1..Len(df.columns)}
               D == HasTwin(df, S)
               out == stdout[1].result
           IN /\ out.duplicate_rows = Cardinality(D)
              /\ Len(out.sample) = IF Cardinality(D) < 10 THEN Cardinality(D) ELSE 10
              /\ \A k \in 1..Len(out.sample) : out.sample[k] = df.rows[Kth(D, k)]

\* More than 10 copies reported while another row is unique on the subset.
C6_Witness ==
    /\ pc = "Success"
    /\ DuplicatesRequest
    /\ stdout[1].result.duplicate_rows > 10
    /\ stdout[1].result.duplicate_rows < Len(df.rows)
    /\ Len(stdout[1].result.sample) = 10

\* The condition is well-formed and names only columns of the table.
GoodCondition ==
    /\ Loaded
    /\ inp.req.operation = "filter"
    /\ inp.req.condition.given
    /\ Len(inp.req.condition.chars) = 3
    /\ inp.req.condition.chars[2] \in {">", "=="}
    /\ Missing(inp.req, df) = {}

\* Whether row r satisfies the comparison: a missing value or operands of
\* different types compare false.
Satisfies(r, cond) ==
    LET x == IF cond.chars[1] \in {"1", "2"} THEN Num(LitValue(cond.chars[1])) ELSE r[cond.chars[1]]
        y == IF cond.chars[3] \in {"1", "2"} THEN Num(LitValue(cond.chars[3])) ELSE r[cond.chars[3]]
    IN /\ x.t = y.t
       /\ x.t # "nan"
       /\ IF cond.chars[2] = ">" THEN x.v > y.v ELSE x.v = y.v

\* C7: filter with a well-formed condition over existing columns, on a
\* table of any size (zero rows included), succeeds with the number of
\* matching rows, the row count, the percentage rounded to 2 decimals and
\* the first min(5, matching) matching rows in row order.
C7_FilterSucceeds ==
    (Terminated /\ GoodCondition) =>
        /\ pc = "Success"
        /\ LET M == {i \in 1..Len(df.rows) : Satisfies(df.rows[i], inp.req.condition)}
               out == stdout[1].result
           IN /\ out.matching_rows = Cardinality(M)
              /\ out.total_rows = Len(df.rows)
              /\ Len(df.rows) > 0 =>
                    \* percentage in hundredths, to the nearest
                    /\ 2 * Len(df.rows) * out.percentage >= 20000 * Cardinality(M) - Len(df.rows)
                    /\ 2 * Len(df.rows) * out.percentage <= 20000 * Cardinality(M) + Len(df.rows)
              /\ Len(out.sample) = IF Cardinality(M) < 5 THEN Cardinality(M) ELSE 5
              /\ \A k \in 1..Len(out.sample) : out.sample[k] = df.rows[Kth(M, k)]

(***************************************************************************)
(*                 Properties of feature-manager.py                        *)
(***************************************************************************)

\* Index of the first feature of fs whose id is fid, 0 when none has it.
FirstWithId(fs, fid) ==
    IF \E i \in 1..Len(fs) : fs[i].id = fid
    THEN CHOOSE i \in 1..Len(fs) : fs[i].id = fid /\ \A j \in 1..(i - 1) : fs[j].id # fid
    ELSE 0

\* C8: after any sequence of commands from a consistent file, the
\* metadata of the file agrees with its features (total_features is the
\* number of features, passing the number of passing ones, passing plus
\* failing the total), and the file is written only by a pass, fail or add
\* that changed the feature list.
C8_MetadataConsistent ==
    /\ fdata.metadata.total_features = Len(fdata.features)
    /\ fdata.metadata.passing =
           Cardinality({i \in 1..Len(fdata.features) : fdata.features[i].passes})
    /\ fdata.metadata.passing + fdata.metadata.failing = fdata.metadata.total_features
    /\ hist # <<>> =>
          /\ Last(hist).wrote =>
                /\ Last(hist).cmd \in {"pass", "fail", "add"}
                /\ fdata.features # Last(hist).before.features
          /\ ~Last(hist).wrote => fdata = Last(hist).before

\* An add followed by a fail that flipped a feature: two writes in a row.
C8_Witness ==
    /\ Len(hist) = 2
    /\ hist[1].cmd = "add" /\ hist[1].wrote
    /\ hist[2].cmd = "fail" /\ hist[2].wrote
    /\ fdata.metadata.passing < hist[2].before.metadata.passing

\* C9: every cmd_add appends one feature whose id differs from every id
\* already stored, whose priority exceeds every stored priority and whose
\* passes flag is false.
C9_AddFreshId ==
    (hist # <<>> /\ Last(hist).cmd = "add" /\ fexists) =>
        LET old == Last(hist).before.features
            new == Last(fdata.features)
        IN /\ fdata.features = Append(old, new)
           /\ \A i \in 1..Len(old) : old[i].id # new.id
           /\ \A i \in 1..Len(old) : new.priority > old[i].priority
           /\ ~new.passes

\* What cmd_pass / cmd_fail may change: the passes flag of the first feature
\* with the id, and nothing at all when there is no such feature or it is
\* already in the requested state.
C10_Frame ==
    (hist # <<>> /\ Last(hist).cmd \in {"pass", "fail"}) =>
        LET h == Last(hist)
            old == h.before.features
            i == FirstWithId(old, h.arg)
            val == (h.cmd = "pass")
        IN /\ Len(fdata.features) = Len(old)
           /\ fdata.project = h.before.project
           /\ \A j \in 1..Len(old) : j # i => fdata.features[j] = old[j]
           /\ i # 0 => fdata.features[i] = [old[i] EXCEPT !.passes = val]
           /\ (i = 0 \/ old[i].passes = val) => fdata = h.before

\* Running the same pass or fail twice: the second run changes nothing.
C10_Idempotent ==
    (/\ Len(hist) = 2
     /\ hist[1].cmd \in {"pass", "fail"}
     /\ hist[2].cmd = hist[1].cmd
     /\ hist[2].arg = hist[1].arg) => fdata = hist[2].before

PassThenFail ==
    /\ Len(hist) = 2
    /\ hist[1].cmd = "pass"
    /\ hist[2].cmd = "fail"
    /\ hist[2].arg = hist[1].arg

\* C10 as stated: the frame, idempotence, and fail(id) after pass(id)
\* restores the feature list.
C10_FailAfterPassRestores ==
    /\ C10_Frame
    /\ C10_Idempotent
    /\ PassThenFail => fdata.features = hist[1].before.features

\* C10 as amended: the frame, idempotence, and fail(id) after pass(id)
\* restores the feature list when the first feature with the id was not
\* passing before the pass (or no feature has the id).
C10_FailAfterPassRestoresIfFailing ==
    /\ C10_Frame
    /\ C10_Idempotent
    /\ (/\ PassThenFail
        /\ LET old == hist[1].before.features
               i == FirstWithId(old, hist[1].arg)
           IN i = 0 \/ ~old[i].passes)
       => fdata.features = hist[1].before.features

\* A pass that flipped a feature followed by a fail that flipped it back.
C10_Witness ==
    /\ PassThenFail
    /\ hist[1].wrote
    /\ hist[2].wrote
    /\ fdata.features = hist[1].before.features
    /\ fdata.metadata.last_updated # hist[1].before.metadata.last_updated

=============================================================================
